---- MODULE Spec2Model ----
(***************************************************************************)
(* A model of the IMDb scraper: the scrape_movies management command       *)
(* (argument validation, URL construction, the Playwright fetch loop, the  *)
(* field extraction of scrape_page, the bulk upsert of save_movies) and    *)
(* the REST handlers over the Movie table.                                 *)
(*                                                                         *)
(* Conventions.  A Python value that may be None is a sequence of length   *)
(* at most one: None is <<>> and a value v is <<v>>.  A text is a sequence *)
(* of one-character strings.  A float is an integer number of tenths.      *)
(***************************************************************************)
EXTENDS Integers, Sequences, FiniteSets, TLC

VARIABLES
    store,              \* the Movie table: a sequence of rows, in insertion order
    pc,                 \* where the running command is; "idle" when none runs
    now,                \* datetime.now(): [year, month, day]
    args,               \* the options of the running command
    verdict,            \* what validate_arguments did: "ok" or the error raised
    url,                \* None, or the URL construct_url returned
    scrape_page_calls,  \* how often scrape_url invoked scrape_page in this run
    page_num,           \* the loop variable of the fetch loop
    all_page_content,   \* the harvested documents, concatenated
    button,             \* the state of the load-more control seen in this iteration
    clicks,             \* how often the load-more control was clicked in this run
    fetched,            \* None, or what fetch_all_pages_with_playwright returned
    fetch_failed,       \* whether a step of the fetch raised in this run
    movies,             \* the records scrape_url returned
    created,            \* the titles of the create list of the last save_movies
    updated,            \* the titles of the update list of the last save_movies
    save_error,         \* whether save_movies logged an error in this run
    save_calls,         \* how often handle called save_movies in this run
    before,             \* the table as it was when the command started
    resp                \* the status of the last REST response, 0 when none

vars == <<store, pc, now, args, verdict, url, scrape_page_calls, page_num,
          all_page_content, button, clicks, fetched, fetch_failed, movies,
          created, updated, save_error, save_calls, before, resp>>

-----------------------------------------------------------------------------
\* Bounds of the model

\* the largest --pages a command is started with
MaxPages == 2
\* the longest batch save_movies is called with on its own
MaxBatch == 3
\* the longest movie name of a heading, in characters
MaxNameLen == 4

-----------------------------------------------------------------------------
\* Python values

None == <<>>
Some(v) == <<v>>
Val(o) == o[1]

\* Python truthiness of an optional number: None and 0 are false
TruthyNum(o) == o # None /\ Val(o) # 0

RECURSIVE LStrip(_)
LStrip(s) ==
    IF s # <<>> /\ Head(s) = " " THEN LStrip(Tail(s)) ELSE s

RECURSIVE RStrip(_)
RStrip(s) ==
    IF s # <<>> /\ s[Len(s)] = " " THEN RStrip(SubSeq(s, 1, Len(s) - 1)) ELSE s

\* str.strip()
Strip(s) == RStrip(LStrip(s))

\* str.find(sep), 1-based; 0 when sep does not occur
Find(s, sep) ==
    LET hits == {i \in 1..(Len(s) - Len(sep) + 1) :
                    SubSeq(s, i, i + Len(sep) - 1) = sep}
    IN  IF hits = {} THEN 0
        ELSE CHOOSE i \in hits : \A j \in hits : i <= j

\* str.split(sep)
RECURSIVE Split(_, _)
Split(s, sep) ==
    LET i == Find(s, sep)
    IN  IF i = 0 THEN <<s>>
        ELSE <<SubSeq(s, 1, i - 1)>> \o Split(SubSeq(s, i + Len(sep), Len(s)), sep)

Digits == <<"0", "1", "2", "3", "4", "5", "6", "7", "8", "9">>
IsDigit(c) == \E d \in 1..10 : Digits[d] = c
DigitVal(c) == (CHOOSE d \in 1..10 : Digits[d] = c) - 1

\* float(text) in tenths for the texts "d" and "d.d"; None where float() raises
ToFloat(s) ==
    IF Len(s) = 1 /\ IsDigit(s[1]) THEN Some(10 * DigitVal(s[1]))
    ELSE IF Len(s) = 3 /\ IsDigit(s[1]) /\ s[2] = "." /\ IsDigit(s[3])
         THEN Some(10 * DigitVal(s[1]) + DigitVal(s[3]))
         ELSE None

\* str.lower(), as the iexact lookup folds case
LowerChar(c) == IF c = "A" THEN "a" ELSE IF c = "M" THEN "m" ELSE c
Lower(s) == [i \in 1..Len(s) |-> LowerChar(s[i])]

-----------------------------------------------------------------------------
\* models.py: the enumerations

\* Genre
GenreValues == {"comedy", "action", "drama", "horror"}
\* TitleType
TitleTypeValues == {"feature", "tv_series", "short"}

-----------------------------------------------------------------------------
\* validate_arguments and construct_url

\* the bounds of --user_rating, in tenths
MinRating == 10
MaxRating == 100
\* the earliest --release_year
MinYear == 1900

\* the range test with the bounds excluded
RatingOutOfRangeExclusive(r) == ~(MinRating < r /\ r < MaxRating)

\* not (1.0 <= user_rating <= 10.0)
RatingOutOfRange(r) == ~(MinRating <= r /\ r <= MaxRating)

\* release_year < 1900 or release_year > current_year
YearOutOfRange(y, current_year) == y < MinYear \/ y > current_year

\* validate_arguments: "ok" when it returns, else which ValueError it raises
ValidateArguments(genre, user_rating, release_year, current_year) ==
    IF genre \notin GenreValues THEN "genre"
    ELSE IF user_rating # None /\ RatingOutOfRange(Val(user_rating)) THEN "rating"
    ELSE IF release_year # None /\ YearOutOfRange(Val(release_year), current_year)
         THEN "year"
         ELSE "ok"

\* One part of the URL: the base, or a query parameter with the values formatted
\* into it.
Segment(k, v) == [k |-> k, v |-> v]

BASE_URL == Segment("https://www.imdb.com/search/title/", <<>>)

\* construct_url testing "is not None" where the code tests truthiness
ConstructUrlNotNone(a, today) ==
    <<BASE_URL, Segment("title_type", <<a.title_type>>), Segment("genres", <<a.genre>>)>>
    \o (IF a.user_rating # None
        THEN <<Segment("user_rating", <<Val(a.user_rating), MaxRating>>)>> ELSE <<>>)
    \o (IF a.num_votes # None
        THEN <<Segment("num_votes", <<Val(a.num_votes)>>)>> ELSE <<>>)
    \o (IF a.release_year # None
        THEN <<Segment("release_date",
                       <<Val(a.release_year), 1, 1, today.year, today.month, today.day>>)>>
        ELSE <<>>)

\* construct_url: the base, title_type and genres, then one segment for each of
\* user_rating, num_votes and release_year that is truthy
ConstructUrl(a, today) ==
    <<BASE_URL, Segment("title_type", <<a.title_type>>), Segment("genres", <<a.genre>>)>>
    \o (IF TruthyNum(a.user_rating)
        THEN <<Segment("user_rating", <<Val(a.user_rating), MaxRating>>)>> ELSE <<>>)
    \o (IF TruthyNum(a.num_votes)
        THEN <<Segment("num_votes", <<Val(a.num_votes)>>)>> ELSE <<>>)
    \o (IF TruthyNum(a.release_year)
        THEN <<Segment("release_date",
                       <<Val(a.release_year), 1, 1, today.year, today.month, today.day>>)>>
        ELSE <<>>)


-----------------------------------------------------------------------------
\* scrape_page: the field extraction

\* A listing container (li.ipc-metadata-list-summary-item) as the selectors of
\* scrape_page see it: the text of its h3.ipc-title__text, the alt attribute of
\* its img.ipc-image, the texts of the metadata items of its metadata div, the
\* texts of its rating span and of its plot div; None for a missing element.
Container(h3, alt, meta, rating, plot) ==
    [h3 |-> h3, alt |-> alt, meta |-> meta, rating |-> rating, plot |-> plot]

RankSep == <<".", " ">>
CastSep == <<" ", "i", "n", " ">>

\* title = title_tag.text.strip() if title_tag else None
TitleText(c) == IF c.h3 # None THEN Some(Strip(Val(c.h3))) ELSE None

\* title.split(". ")[1] raises IndexError when the text holds no ". "
TitleRaises(c) ==
    LET t == TitleText(c)
    IN  t # None /\ Val(t) # <<>> /\ Len(Split(Val(t), RankSep)) < 2

\* title = title.split(". ")[1] if title else None
ExtractTitle(c) ==
    LET t == TitleText(c)
    IN  IF t # None /\ Val(t) # <<>> THEN Some(Split(Val(t), RankSep)[2]) ELSE None

\* cast = alt_text.split(" in ")[0], assigned only when the image has an alt;
\* otherwise the variable keeps what an earlier container left in it
ExtractCast(c, cast) ==
    IF c.alt # None THEN Some(Split(Val(c.alt), CastSep)[1]) ELSE cast

\* the k-th metadata item, stripped, when the div exists and holds k items
MetaItem(c, k) ==
    IF c.meta # None /\ Len(Val(c.meta)) >= k THEN Some(Strip(Val(c.meta)[k])) ELSE None

StripOpt(o) == IF o # None THEN Some(Strip(Val(o))) ELSE None

\* the movie dictionary of one container; cast is the value of the local variable
MovieDict(c, cast) ==
    [title |-> ExtractTitle(c), year |-> MetaItem(c, 1), duration |-> MetaItem(c, 2),
     category |-> MetaItem(c, 3), rating |-> StripOpt(c.rating), cast |-> Val(cast),
     plot |-> StripOpt(c.plot)]

\* The loop over the containers.  cast is None while the local variable is
\* unbound.  A container whose title raises, or that reads the unbound cast, is
\* logged and skipped by the except clause.
RECURSIVE ScrapeContainers(_, _, _)
ScrapeContainers(cs, cast, out) ==
    IF cs = <<>> THEN out
    ELSE LET c == Head(cs)
         IN  IF TitleRaises(c) THEN ScrapeContainers(Tail(cs), cast, out)
             ELSE LET cast1 == ExtractCast(c, cast)
                  IN  IF cast1 = None THEN ScrapeContainers(Tail(cs), cast1, out)
                      ELSE ScrapeContainers(Tail(cs), cast1,
                                            Append(out, MovieDict(c, cast1)))

\* soup.find_all over the concatenated documents: every container, in order
RECURSIVE FindAll(_)
FindAll(docs) == IF docs = <<>> THEN <<>> ELSE Head(docs) \o FindAll(Tail(docs))

\* scrape_page once the fetch has returned: [] when the content is None or
\* empty, else the movie dictionaries
ScrapePage(content) ==
    IF content = None \/ Val(content) = <<>> THEN <<>>
    ELSE ScrapeContainers(FindAll(Val(content)), None, <<>>)

\* asyncio.gather over the single scrape_page coroutine
Gather(coroutines) == [i \in 1..Len(coroutines) |-> ScrapePage(coroutines[i])]

\* scrape_url gathering the same page twice
ScrapeUrlTwice(content) == FindAll(Gather(<<content, content>>))

\* scrape_url: the results of the gathered pages, flattened
ScrapeUrl(content) == FindAll(Gather(<<content>>))

-----------------------------------------------------------------------------
\* The Movie table and save_movies

\* A row of the Movie table.  title is unique and not null; every other column
\* is nullable.
Row(title, release_year, duration, category, imdb_rating, director, cast, plot_summary) ==
    [title |-> title, release_year |-> release_year, duration |-> duration,
     category |-> category, imdb_rating |-> imdb_rating, director |-> director,
     cast |-> cast, plot_summary |-> plot_summary]

\* whether a row of the table holds exactly this title
TitleIn(table, title) == \E i \in 1..Len(table) : table[i].title = title

\* movie["title"] in existing_movies_dict, the rows filter(title__in=titles) found
IsExisting(table, m) == m.title # None /\ TitleIn(table, Val(m.title))

\* the positions of the batch that go to new_movies, in order
NewIndices(table, ms) ==
    SelectSeq([j \in 1..Len(ms) |-> j], LAMBDA j : ~IsExisting(table, ms[j]))

\* the positions of the batch that go to updates, in order
UpdateIndices(table, ms) ==
    SelectSeq([j \in 1..Len(ms) |-> j], LAMBDA j : IsExisting(table, ms[j]))

\* FloatField.get_prep_value of what save_movies assigned to imdb_rating
PrepRating(rating) == IF rating = None THEN None ELSE ToFloat(Val(rating))

\* float() raising on the rating text
PrepRaises(m) == m.rating # None /\ ToFloat(Val(m.rating)) = None

\* Movie(title=..., release_year=..., ...) of a batch entry, as the row it is
\* written as: director is left at its default
NewMovie(m) ==
    Row(Val(m.title), m.year, m.duration, m.category, PrepRating(m.rating), None,
        Some(m.cast), m.plot)

\* bulk_create without the unique constraint on title
RECURSIVE BulkCreateNoUnique(_, _)
BulkCreateNoUnique(table, ms) ==
    IF ms = <<>> THEN table
    ELSE IF Head(ms).title = None THEN BulkCreateNoUnique(table, Tail(ms))
         ELSE BulkCreateNoUnique(Append(table, NewMovie(Head(ms))), Tail(ms))

\* bulk_create(new_movies, ignore_conflicts=True): the rows are inserted in
\* order, and a row that violates a constraint the backend ignores (the unique
\* title, against the table or an earlier row of the same statement) is skipped
RECURSIVE BulkCreate(_, _)
BulkCreate(table, ms) ==
    IF ms = <<>> THEN table
    ELSE IF Head(ms).title = None \/ TitleIn(table, Val(Head(ms).title))
         THEN BulkCreate(table, Tail(ms))
         ELSE BulkCreate(Append(table, NewMovie(Head(ms))), Tail(ms))

\* The entry whose values the existing object of this title holds after the loop:
\* every entry of the title assigns to the same object, so the last one stays.
LastEntry(ms, title) ==
    ms[CHOOSE j \in 1..Len(ms) :
          /\ ms[j].title = Some(title)
          /\ \A k \in 1..Len(ms) : ms[k].title = Some(title) => k <= j]

\* the first entry of the title, where the loop kept the first assignment
FirstEntry(ms, title) ==
    ms[CHOOSE j \in 1..Len(ms) :
          /\ ms[j].title = Some(title)
          /\ \A k \in 1..Len(ms) : ms[k].title = Some(title) => j <= k]

\* the update branch writing a fresh Movie(...) over the row, as the create
\* branch builds one: the director is lost
AssignAll(row, m) == NewMovie(m)

\* the six assignments of the update branch, on a row
Assign(row, m) ==
    [row EXCEPT !.release_year = m.year, !.imdb_rating = PrepRating(m.rating),
                !.cast = Some(m.cast), !.plot_summary = m.plot,
                !.duration = m.duration, !.category = m.category]

\* bulk_update writing the first assignment of each object
BulkUpdateFirst(table, ms) ==
    [i \in 1..Len(table) |->
        IF \E j \in 1..Len(ms) : ms[j].title = Some(table[i].title)
        THEN Assign(table[i], FirstEntry(ms, table[i].title))
        ELSE table[i]]

\* bulk_update(updates, fields=[...]): each row of the update list gets the six
\* fields of its object
BulkUpdate(table, ms) ==
    [i \in 1..Len(table) |->
        IF \E j \in 1..Len(ms) : ms[j].title = Some(table[i].title)
        THEN Assign(table[i], LastEntry(ms, table[i].title))
        ELSE table[i]]

Pick(ms, idx) == [k \in 1..Len(idx) |-> ms[idx[k]]]

\* What the statements inside transaction.atomic() raise: float() on a rating
\* text, the NOT NULL constraint on a backend whose ignore_conflicts does not
\* cover it, or the database failing
TransactionRaises(ms, null_ignored, outage) ==
    \/ outage
    \/ \E j \in 1..Len(ms) : PrepRaises(ms[j])
    \/ \E j \in 1..Len(ms) : ms[j].title = None /\ ~null_ignored

\* what bulk_create raises on the new entries
CreateRaises(ms, null_ignored) ==
    \E j \in 1..Len(ms) : PrepRaises(ms[j]) \/ (ms[j].title = None /\ ~null_ignored)

\* what bulk_update raises on the entries of existing titles
UpdateRaises(ms) == \E j \in 1..Len(ms) : PrepRaises(ms[j])

\* save_movies without transaction.atomic(): bulk_create is committed on its own,
\* so a failure of bulk_update (or of the database after the insert) leaves the
\* new rows in the table
SaveMoviesAutocommit(table, ms, null_ignored, outage) ==
    IF ms = <<>>
    THEN [store |-> table, created |-> <<>>, updated |-> <<>>, error |-> FALSE]
    ELSE LET new == NewIndices(table, ms)
             upd == UpdateIndices(table, ms)
         IN  IF CreateRaises(Pick(ms, new), null_ignored)
             THEN [store |-> table, created |-> new, updated |-> upd, error |-> TRUE]
             ELSE IF outage \/ UpdateRaises(Pick(ms, upd))
                  THEN [store |-> BulkCreate(table, Pick(ms, new)),
                        created |-> new, updated |-> upd, error |-> TRUE]
                  ELSE [store |-> BulkUpdate(BulkCreate(table, Pick(ms, new)), Pick(ms, upd)),
                        created |-> new, updated |-> upd, error |-> FALSE]

\* save_movies: the table, the two lists (as positions of the batch) and whether
\* an error was logged.  null_ignored says whether the backend's
\* ignore_conflicts skips a row without title (SQLite) or raises (PostgreSQL);
\* outage says whether the database fails.
SaveMovies(table, ms, null_ignored, outage) ==
    IF ms = <<>>
    THEN [store |-> table, created |-> <<>>, updated |-> <<>>, error |-> FALSE]
    ELSE LET new == NewIndices(table, ms)
             upd == UpdateIndices(table, ms)
         IN  IF TransactionRaises(ms, null_ignored, outage)
             THEN [store |-> table, created |-> new, updated |-> upd, error |-> TRUE]
             ELSE [store |-> BulkUpdate(BulkCreate(table, Pick(ms, new)), Pick(ms, upd)),
                   created |-> new, updated |-> upd, error |-> FALSE]

-----------------------------------------------------------------------------
\* urls.py and views.py: the REST surface

\* the HTTP methods a client may send
Methods == {"GET", "POST", "PUT", "PATCH", "DELETE"}

\* urlpatterns: 'movies/' is MovieListView, 'movies/<str:title>/' is
\* MovieDetailView; the methods are those each view defines a handler for
Handlers == [list |-> {"GET"}, detail |-> {"GET", "POST", "PUT", "DELETE"}]

\* the rows Movie.objects.get(title__iexact=title) matches
IExact(table, title) == {i \in 1..Len(table) : Lower(table[i].title) = Lower(title)}

\* Movie.objects.get: "found" with one match, DoesNotExist with none,
\* MultipleObjectsReturned with several
GetOutcome(table, title) ==
    LET n == Cardinality(IExact(table, title))
    IN  IF n = 0 THEN "DoesNotExist" ELSE IF n = 1 THEN "found" ELSE "MultipleObjectsReturned"

TheMatch(table, title) == CHOOSE i \in IExact(table, title) : TRUE

\* Request data: a record of some of the columns; a field named invalid stands
\* for a value the serializer rejects.
ColumnNames ==
    {"title", "release_year", "duration", "category", "imdb_rating", "director",
     "cast", "plot_summary"}

\* MovieSerializer(...).is_valid() on the values themselves: a create needs a
\* title, a partial update needs none
WellFormed(data, partial) ==
    /\ "invalid" \notin DOMAIN data
    /\ partial \/ "title" \in DOMAIN data

\* whether writing data over row `except` (0 for a create) would repeat a title
TitleTaken(table, data, except) ==
    /\ "title" \in DOMAIN data
    /\ \E i \in 1..Len(table) : i # except /\ table[i].title = data.title

Field(data, f, default) == IF f \in DOMAIN data THEN data[f] ELSE default

\* serializer.save() creating: the columns the data does not name are null
CreatedRow(data) ==
    Row(data.title, Field(data, "release_year", None), Field(data, "duration", None),
        Field(data, "category", None), Field(data, "imdb_rating", None),
        Field(data, "director", None), Field(data, "cast", None),
        Field(data, "plot_summary", None))

\* serializer.save() updating: the columns the data names are overwritten
UpdatedRow(row, data) ==
    Row(Field(data, "title", row.title), Field(data, "release_year", row.release_year),
        Field(data, "duration", row.duration), Field(data, "category", row.category),
        Field(data, "imdb_rating", row.imdb_rating), Field(data, "director", row.director),
        Field(data, "cast", row.cast), Field(data, "plot_summary", row.plot_summary))

\* serializer.save() of put without the instance: a row is created
PutWriteCreates(table, i, data) == Append(table, UpdatedRow(table[i], data))

\* MovieSerializer(movie, data=request.data, partial=True).save(): row i is
\* overwritten in place
PutWrite(table, i, data) == [table EXCEPT ![i] = UpdatedRow(table[i], data)]

Remove(table, i) == SubSeq(table, 1, i - 1) \o SubSeq(table, i + 1, Len(table))

-----------------------------------------------------------------------------
\* The inputs the model draws from

TitleLower == <<"a">>
TitleUpper == <<"A">>
MainTitles == {TitleLower, TitleUpper}

\* a title that is no other's match, for the requests
TitleOther == <<"b">>
\* the titles of the paths and bodies of the requests
RequestTitles == MainTitles \cup {TitleOther}

\* Two listings of a title that differ in every field
Year(p) == IF p = 1 THEN <<"2", "0", "2", "3">> ELSE <<"1", "9", "9", "9">>
Duration(p) == IF p = 1 THEN <<"9", "0", "m">> ELSE <<"2", "h">>
Category(p) == IF p = 1 THEN <<"R">> ELSE <<"P", "G">>
Rating(p) == IF p = 1 THEN <<"8", ".", "5">> ELSE <<"7">>
Alt(p) == IF p = 1 THEN <<"X", " ", "i", "n", " ", "a">> ELSE <<"Y", " ", "i", "n", " ", "a">>
Plot(p) == IF p = 1 THEN <<"p">> ELSE <<"q">>
Profiles == {1, 2}

Heading(rank, name) == rank \o RankSep \o name

Listing(name, p) ==
    Container(Some(Heading(<<"1">>, name)), Some(Alt(p)),
              Some(<<Year(p), Duration(p), Category(p)>>), Some(Rating(p)), Some(Plot(p)))

\* the containers a harvested document of the full system holds
MainContainers == {Listing(t, p) : t \in MainTitles, p \in Profiles}

SeqsUpTo(S, n) == UNION {[1..k -> S] : k \in 0..n}

\* the documents page.content() may return: no listing, or one
Docs == {<<>>} \cup {<<c>> : c \in MainContainers}

Today == [year |-> 2026, month |-> 11, day |-> 3]

Options(genre, title_type, user_rating, num_votes, release_year, pages) ==
    [genre |-> genre, title_type |-> title_type, user_rating |-> user_rating,
     num_votes |-> num_votes, release_year |-> release_year, pages |-> pages]

NoOptions == Options("", "", None, None, None, 0)

\* the command lines of the full system
MainOptions ==
    {Options(g, "feature", None, None, None, n) : g \in {"comedy", "sci-fi"}, n \in 0..MaxPages}

DirectorText == <<"D">>

\* the bodies of the POST requests
PostData ==
    {[title |-> t, director |-> Some(DirectorText)] : t \in RequestTitles}
    \cup {[director |-> Some(DirectorText)], [title |-> TitleLower, invalid |-> TRUE]}

\* the bodies of the PUT requests
PutData ==
    {[title |-> t] : t \in RequestTitles}
    \cup {[director |-> Some(DirectorText)], [invalid |-> TRUE]}

-----------------------------------------------------------------------------
\* The state machine

\* the variables of one run of the command, as they are when none runs
RunReset ==
    /\ args' = NoOptions
    /\ verdict' = "none"
    /\ url' = None
    /\ scrape_page_calls' = 0
    /\ page_num' = 0
    /\ all_page_content' = <<>>
    /\ button' = "none"
    /\ clicks' = 0
    /\ fetched' = None
    /\ fetch_failed' = FALSE
    /\ movies' = <<>>
    /\ created' = <<>>
    /\ updated' = <<>>
    /\ save_error' = FALSE
    /\ save_calls' = 0

Init ==
    /\ store = <<>>
    /\ pc = "idle"
    /\ now = Today
    /\ args = NoOptions
    /\ verdict = "none"
    /\ url = None
    /\ scrape_page_calls = 0
    /\ page_num = 0
    /\ all_page_content = <<>>
    /\ button = "none"
    /\ clicks = 0
    /\ fetched = None
    /\ fetch_failed = FALSE
    /\ movies = <<>>
    /\ created = <<>>
    /\ updated = <<>>
    /\ save_error = FALSE
    /\ save_calls = 0
    /\ before = <<>>
    /\ resp = 0

\* handle is entered with the parsed options
Handle ==
    /\ pc = "idle"
    /\ \E a \in MainOptions : args' = a
    /\ pc' = "validate"
    /\ before' = store
    /\ resp' = 0
    /\ UNCHANGED <<store, now, verdict, url, scrape_page_calls, page_num,
                   all_page_content, button, clicks, fetched, fetch_failed, movies,
                   created, updated, save_error, save_calls>>

\* handle going on to construct_url whatever validate_arguments did
ValidateUnchecked ==
    /\ pc = "validate"
    /\ verdict' = ValidateArguments(args.genre, args.user_rating, args.release_year,
                                    now.year)
    /\ pc' = "construct"
    /\ UNCHANGED <<store, now, args, url, scrape_page_calls, page_num, all_page_content,
                   button, clicks, fetched, fetch_failed, movies, created, updated,
                   save_error, save_calls, before, resp>>

\* self.validate_arguments(genre, user_rating, release_year); a ValueError is
\* caught by handle, logged, and ends the run
Validate ==
    /\ pc = "validate"
    /\ verdict' = ValidateArguments(args.genre, args.user_rating, args.release_year,
                                    now.year)
    /\ pc' = IF verdict' = "ok" THEN "construct" ELSE "done"
    /\ UNCHANGED <<store, now, args, url, scrape_page_calls, page_num, all_page_content,
                   button, clicks, fetched, fetch_failed, movies, created, updated,
                   save_error, save_calls, before, resp>>

\* url = self.construct_url(...)
Construct ==
    /\ pc = "construct"
    /\ url' = Some(ConstructUrl(args, now))
    /\ pc' = "scrape_url"
    /\ UNCHANGED <<store, now, args, verdict, scrape_page_calls, page_num,
                   all_page_content, button, clicks, fetched, fetch_failed, movies,
                   created, updated, save_error, save_calls, before, resp>>

\* scrape_url starts the coroutines it gathers: one scrape_page
CallScrapePage ==
    /\ pc = "scrape_url"
    /\ scrape_page_calls' = scrape_page_calls + Len(<<url>>)
    /\ pc' = "launch"
    /\ UNCHANGED <<store, now, args, verdict, url, page_num, all_page_content, button,
                   clicks, fetched, fetch_failed, movies, created, updated, save_error,
                   save_calls, before, resp>>

\* the browser is launched, the page opened and navigated to the url
Launch ==
    /\ pc = "launch"
    /\ all_page_content' = <<>>
    /\ page_num' = 0
    /\ pc' = "loop"
    /\ UNCHANGED <<store, now, args, verdict, url, scrape_page_calls, button, clicks,
                   fetched, fetch_failed, movies, created, updated, save_error,
                   save_calls, before, resp>>

\* range(page_count + 1)
LoopRunsOnceMore(n, page_count) == n <= page_count

\* range(page_count) with page_num iterations done
LoopRuns(n, page_count) == n < page_count

\* one iteration up to the test of the control: the page is harvested and the
\* control located
Harvest ==
    /\ pc = "loop"
    /\ LoopRuns(page_num, args.pages)
    /\ \E doc \in Docs : all_page_content' = Append(all_page_content, doc)
    /\ \E b \in {"visible", "hidden"} : button' = b
    /\ pc' = "button"
    /\ UNCHANGED <<store, now, args, verdict, url, scrape_page_calls, page_num, clicks,
                   fetched, fetch_failed, movies, created, updated, save_error,
                   save_calls, before, resp>>

\* button.click() and the wait; the next iteration follows
Click ==
    /\ pc = "button"
    /\ button = "visible"
    /\ clicks' = clicks + 1
    /\ page_num' = page_num + 1
    /\ pc' = "loop"
    /\ UNCHANGED <<store, now, args, verdict, url, scrape_page_calls, all_page_content,
                   button, fetched, fetch_failed, movies, created, updated, save_error,
                   save_calls, before, resp>>

\* the control is missing or not visible: break
Break ==
    /\ pc = "button"
    /\ button # "visible"
    /\ pc' = "close"
    /\ UNCHANGED <<store, now, args, verdict, url, scrape_page_calls, page_num,
                   all_page_content, button, clicks, fetched, fetch_failed, movies,
                   created, updated, save_error, save_calls, before, resp>>

\* the range is exhausted
LoopEnd ==
    /\ pc = "loop"
    /\ ~LoopRuns(page_num, args.pages)
    /\ pc' = "close"
    /\ UNCHANGED <<store, now, args, verdict, url, scrape_page_calls, page_num,
                   all_page_content, button, clicks, fetched, fetch_failed, movies,
                   created, updated, save_error, save_calls, before, resp>>

\* browser.close() and return all_page_content
Close ==
    /\ pc = "close"
    /\ fetched' = Some(all_page_content)
    /\ pc' = "parse"
    /\ UNCHANGED <<store, now, args, verdict, url, scrape_page_calls, page_num,
                   all_page_content, button, clicks, fetch_failed, movies, created,
                   updated, save_error, save_calls, before, resp>>

\* the steps of the fetch that can raise: the launch and navigation, the wait and
\* harvest of an iteration, the click, the close
CanRaise ==
    \/ pc = "launch"
    \/ pc = "loop" /\ LoopRuns(page_num, args.pages)
    \/ pc = "button" /\ button = "visible"
    \/ pc = "close"

\* the except clause returning what was harvested so far
OnFetchErrorPartial(content) == Some(content)

\* what fetch_all_pages_with_playwright returns from its except clause
OnFetchError(content) == None

\* a step of the fetch raises: the except clause logs and returns
FetchRaises ==
    /\ CanRaise
    /\ fetched' = OnFetchError(all_page_content)
    /\ fetch_failed' = TRUE
    /\ pc' = "parse"
    /\ UNCHANGED <<store, now, args, verdict, url, scrape_page_calls, page_num,
                   all_page_content, button, clicks, movies, created, updated,
                   save_error, save_calls, before, resp>>

\* scrape_page parses what the fetch returned and scrape_url returns the records
Parse ==
    /\ pc = "parse"
    /\ movies' = ScrapeUrl(fetched)
    /\ pc' = "save"
    /\ UNCHANGED <<store, now, args, verdict, url, scrape_page_calls, page_num,
                   all_page_content, button, clicks, fetched, fetch_failed, created,
                   updated, save_error, save_calls, before, resp>>

\* self.save_movies(movies)
Save ==
    /\ pc = "save"
    /\ \E null_ignored \in BOOLEAN, outage \in BOOLEAN :
          LET r == SaveMovies(store, movies, null_ignored, outage)
          IN  /\ store' = r.store
              /\ created' = r.created
              /\ updated' = r.updated
              /\ save_error' = r.error
    /\ save_calls' = save_calls + 1
    /\ pc' = "done"
    /\ UNCHANGED <<now, args, verdict, url, scrape_page_calls, page_num,
                   all_page_content, button, clicks, fetched, fetch_failed, movies,
                   before, resp>>

\* handle returns and the process ends
Exit ==
    /\ pc = "done"
    /\ pc' = "idle"
    /\ RunReset
    /\ before' = <<>>
    /\ UNCHANGED <<store, now, resp>>

\* The REST handlers.  Each runs as one step, and the steps of a command other
\* than save_movies neither read nor write the table, so a request that arrives
\* during a run has the effect of one that arrives before it: requests are taken
\* between runs.

RestFrame ==
    UNCHANGED <<pc, now, args, verdict, url, scrape_page_calls, page_num,
                all_page_content, button, clicks, fetched, fetch_failed, movies,
                created, updated, save_error, save_calls, before>>

\* a method the routed view defines no handler for: 405
NotAllowed ==
    /\ pc = "idle"
    /\ \E view \in DOMAIN Handlers : \E method \in Methods : method \notin Handlers[view]
    /\ resp' = 405
    /\ UNCHANGED store
    /\ RestFrame

\* MovieListView.get
ListGet ==
    /\ pc = "idle"
    /\ "GET" \in Handlers.list
    /\ resp' = 200
    /\ UNCHANGED store
    /\ RestFrame

\* the status of a lookup that does not find one row: 404 for DoesNotExist; a
\* MultipleObjectsReturned is caught nowhere and ends as a 500
LookupStatus(outcome) == IF outcome = "DoesNotExist" THEN 404 ELSE 500

\* MovieDetailView.get
DetailGet ==
    /\ pc = "idle"
    /\ "GET" \in Handlers.detail
    /\ \E title \in RequestTitles :
          LET outcome == GetOutcome(store, title)
          IN  resp' = IF outcome = "found" THEN 200 ELSE LookupStatus(outcome)
    /\ UNCHANGED store
    /\ RestFrame

\* the status of a write whose title another row already holds: 400 when the
\* serializer validates uniqueness, else the table's unique constraint raises
\* IntegrityError, which ends as a 500; the table is unchanged in both
ConflictStatus(validates_unique) == IF validates_unique THEN 400 ELSE 500

\* MovieDetailView.post: the title of the path is not used
DetailPost ==
    /\ pc = "idle"
    /\ "POST" \in Handlers.detail
    /\ \E data \in PostData, validates_unique \in BOOLEAN :
          IF ~WellFormed(data, FALSE)
          THEN resp' = 400 /\ UNCHANGED store
          ELSE IF TitleTaken(store, data, 0)
               THEN resp' = ConflictStatus(validates_unique) /\ UNCHANGED store
               ELSE resp' = 201 /\ store' = Append(store, CreatedRow(data))
    /\ RestFrame

\* MovieDetailView.put
DetailPut ==
    /\ pc = "idle"
    /\ "PUT" \in Handlers.detail
    /\ \E title \in RequestTitles, data \in PutData, validates_unique \in BOOLEAN :
          LET outcome == GetOutcome(store, title)
              i == TheMatch(store, title)
          IN  IF outcome # "found"
              THEN resp' = LookupStatus(outcome) /\ UNCHANGED store
              ELSE IF ~WellFormed(data, TRUE)
                   THEN resp' = 400 /\ UNCHANGED store
                   ELSE IF TitleTaken(store, data, i)
                        THEN resp' = ConflictStatus(validates_unique) /\ UNCHANGED store
                        ELSE /\ resp' = 200
                             /\ store' = PutWrite(store, i, data)
    /\ RestFrame

\* MovieDetailView.delete
DetailDelete ==
    /\ pc = "idle"
    /\ "DELETE" \in Handlers.detail
    /\ \E title \in RequestTitles :
          LET outcome == GetOutcome(store, title)
          IN  IF outcome # "found"
              THEN resp' = LookupStatus(outcome) /\ UNCHANGED store
              ELSE resp' = 204 /\ store' = Remove(store, TheMatch(store, title))
    /\ RestFrame

Next ==
    \/ Handle
    \/ Validate
    \/ Construct
    \/ CallScrapePage
    \/ Launch
    \/ Harvest
    \/ Click
    \/ Break
    \/ LoopEnd
    \/ Close
    \/ FetchRaises
    \/ Parse
    \/ Save
    \/ Exit
    \/ NotAllowed
    \/ ListGet
    \/ DetailGet
    \/ DetailPost
    \/ DetailPut
    \/ DetailDelete

\* the whole system: commands and REST requests, from the empty table
Spec == Init /\ [][Next]_vars

-----------------------------------------------------------------------------
\* validate_arguments and construct_url called on their own

Years == {2025, 2026}

OptionSpace ==
    {Options(g, t, r, v, y, 1) :
        g \in {"comedy", "horror", "sci-fi", ""},
        t \in {"feature", "short"},
        r \in {None, Some(-5), Some(0), Some(9), Some(10), Some(85), Some(100), Some(101)},
        v \in {None, Some(0), Some(100)},
        y \in {None, Some(0), Some(1899), Some(1900), Some(2025), Some(2026), Some(2027)}}

InitArgs ==
    /\ store = <<>>
    /\ pc \in {"validate", "construct"}
    /\ now \in {[year |-> y, month |-> 11, day |-> 3] : y \in Years}
    /\ args \in OptionSpace
    /\ verdict = "none"
    /\ url = None
    /\ scrape_page_calls = 0
    /\ page_num = 0
    /\ all_page_content = <<>>
    /\ button = "none"
    /\ clicks = 0
    /\ fetched = None
    /\ fetch_failed = FALSE
    /\ movies = <<>>
    /\ created = <<>>
    /\ updated = <<>>
    /\ save_error = FALSE
    /\ save_calls = 0
    /\ before = <<>>
    /\ resp = 0

NextArgs ==
    \/ Validate
    \/ Construct

\* validate_arguments, construct_url, or the one after the other as in handle,
\* over a range of options
SpecArgs == InitArgs /\ [][NextArgs]_vars

-----------------------------------------------------------------------------
\* scrape_page called on one fetched document

NameChars == {"M", ".", " "}
Names == SeqsUpTo(NameChars, MaxNameLen)

\* a text with white space around it
Padded(text) == <<" ">> \o text \o <<" ">>

\* containers that differ in the heading: a rank and a name, no rank, no heading
HeadingContainers ==
    {Container(h, Some(Alt(1)), Some(<<Year(1)>>), Some(Rating(1)), Some(Plot(1))) :
        h \in {Some(Heading(<<"1">>, n)) : n \in Names}
              \cup {Some(Heading(<<"1", "2">>, <<"M">>)), Some(<<"M">>), None}}

\* containers that differ in the other elements
FieldContainers ==
    {Container(Some(Heading(<<"1">>, <<"M">>)), alt, meta, rating, plot) :
        alt \in {None, Some(Alt(1)), Some(Alt(2))},
        meta \in {None} \cup
                 {Some(SubSeq(<<Padded(Year(1)), Duration(1), Category(1)>>, 1, k)) :
                     k \in 0..3},
        rating \in {None, Some(Padded(Rating(2)))},
        plot \in {None, Some(Plot(2))}}

ParseContainers == HeadingContainers \cup FieldContainers

\* what the fetch returned: None, the empty text, or one document of one or two
\* containers
ParseInputs ==
    {None, Some(<<>>)}
    \cup {Some(<<doc>>) : doc \in [1..1 -> ParseContainers] \cup [1..2 -> ParseContainers]}

InitParse ==
    /\ store = <<>>
    /\ pc = "parse"
    /\ now = Today
    /\ args = NoOptions
    /\ verdict = "none"
    /\ url = None
    /\ scrape_page_calls = 1
    /\ page_num = 0
    /\ all_page_content = <<>>
    /\ button = "none"
    /\ clicks = 0
    /\ fetched \in ParseInputs
    /\ fetch_failed = FALSE
    /\ movies = <<>>
    /\ created = <<>>
    /\ updated = <<>>
    /\ save_error = FALSE
    /\ save_calls = 0
    /\ before = <<>>
    /\ resp = 0

NextParse == Parse

\* scrape_page and scrape_url over a range of fetched documents
SpecParse == InitParse /\ [][NextParse]_vars

-----------------------------------------------------------------------------
\* save_movies called on a batch and a table

\* the record scrape_page makes of a listing
Entry(title, p) ==
    [title |-> title, year |-> Some(Year(p)), duration |-> Some(Duration(p)),
     category |-> Some(Category(p)), rating |-> Some(Rating(p)),
     cast |-> Split(Alt(p), CastSep)[1], plot |-> Some(Plot(p))]

\* the entries of a batch: the listings of the two titles, a record without
\* title, and one whose rating text is no number
BatchEntries ==
    {Entry(Some(t), p) : t \in MainTitles, p \in Profiles}
    \cup {Entry(None, 1), [Entry(Some(TitleLower), 1) EXCEPT !.rating = Some(<<"-">>)]}

Batches == SeqsUpTo(BatchEntries, MaxBatch)

\* the rows a title may have: written by save_movies, or by a POST
RowsOf(t) ==
    {NewMovie(Entry(Some(t), p)) : p \in Profiles}
    \cup {CreatedRow([title |-> t, director |-> Some(DirectorText)])}

\* the tables: each title absent or present, in either order
Tables ==
    {<<>>}
    \cup {<<r>> : r \in RowsOf(TitleLower) \cup RowsOf(TitleUpper)}
    \cup {<<r1, r2>> : r1 \in RowsOf(TitleLower), r2 \in RowsOf(TitleUpper)}
    \cup {<<r2, r1>> : r1 \in RowsOf(TitleLower), r2 \in RowsOf(TitleUpper)}

InitSave ==
    /\ store \in Tables
    /\ pc = "save"
    /\ now = Today
    /\ args = NoOptions
    /\ verdict = "ok"
    /\ url = None
    /\ scrape_page_calls = 1
    /\ page_num = 0
    /\ all_page_content = <<>>
    /\ button = "none"
    /\ clicks = 0
    /\ fetched = None
    /\ fetch_failed = FALSE
    /\ movies \in Batches
    /\ created = <<>>
    /\ updated = <<>>
    /\ save_error = FALSE
    /\ save_calls = 0
    /\ before = store
    /\ resp = 0

NextSave == Save

\* save_movies over a range of batches and tables
SpecSave == InitSave /\ [][NextSave]_vars

-----------------------------------------------------------------------------
\* Properties of save_movies

\* the titles of a batch
TitlesOf(ms) == {Val(ms[j].title) : j \in {k \in 1..Len(ms) : ms[k].title # None}}

\* the rows of a table that hold a title
RowsWith(table, t) == {i \in 1..Len(table) : table[i].title = t}

\* a row holds the six values of a batch entry
Carries(row, m) ==
    /\ row.release_year = m.year
    /\ row.imdb_rating = PrepRating(m.rating)
    /\ row.cast = Some(m.cast)
    /\ row.plot_summary = m.plot
    /\ row.duration = m.duration
    /\ row.category = m.category

\* save_movies has returned from a batch and logged no error
Saved == pc = "done" /\ ~save_error /\ movies # <<>>

Range(f) == {f[i] : i \in DOMAIN f}

\* every entry of the batch is on exactly one of the two lists
OneListEach ==
    /\ Range(created) \cup Range(updated) = 1..Len(movies)
    /\ Range(created) \cap Range(updated) = {}
    /\ Len(created) + Len(updated) = Len(movies)
    /\ \A j \in 1..Len(movies) : j \in Range(updated) <=> IsExisting(before, movies[j])

TableAfter(table, ms) == SaveMovies(table, ms, TRUE, FALSE).store

\* C10: when a batch holds a title more than once, the row of that title after
\* save_movies holds the fields of the last occurrence, whether the title was
\* absent or present before; so saving the batch twice leaves the table as
\* saving it once.
C10_LastOccurrenceWins ==
    Saved =>
        /\ \A t \in TitlesOf(movies) :
              \A i \in RowsWith(store, t) : Carries(store[i], LastEntry(movies, t))
        /\ TableAfter(store, movies) = store

\* save_movies has returned from a batch
Returned == pc = "done" /\ verdict = "ok" /\ movies # <<>>

\* the entries of the update list of the last save_movies
UpdateEntries == Pick(movies, updated)

\* the entries of the create list of the last save_movies
CreateEntries == Pick(movies, created)

\* both steps of the batch are in the table: every title of the create list has
\* a row, and every row of a title of the update list holds the six values of
\* the last entry of that title
BothCommitted ==
    /\ \A t \in TitlesOf(CreateEntries) : RowsWith(store, t) # {}
    /\ \A t \in TitlesOf(UpdateEntries) :
          /\ RowsWith(store, t) # {}
          /\ \A i \in RowsWith(store, t) : Carries(store[i], LastEntry(movies, t))

-----------------------------------------------------------------------------
\* Properties of the table under commands and requests

\* C2: in every state that runs of the command and REST requests (detail post,
\* put, delete) reach, no two rows of the table hold the same title.
C2_TitleUnique ==
    \A i, j \in 1..Len(store) : store[i].title = store[j].title => i = j

\* a command has saved a batch that repeats a title, and the table holds two rows
C2_Witness ==
    /\ pc = "done"
    /\ Len(store) = 2
    /\ \E j, k \in 1..Len(movies) : j # k /\ movies[j].title = movies[k].title

\* the operations of the REST surface: the routed views with their handlers
Operations == {<<view, method>> : view \in DOMAIN Handlers, method \in Methods} \cap
              {vm \in (DOMAIN Handlers) \X Methods : vm[2] \in Handlers[vm[1]]}

\* a step that answers a REST request
RestStep == pc = "idle" /\ pc' = "idle"

LookupAnswer(title) ==
    LET outcome == GetOutcome(store, title)
    IN  IF outcome = "found" THEN 0 ELSE LookupStatus(outcome)

\* a run of the command that started on the empty table has called save_movies:
\* every row of the table was written by this upsert
UpsertedOnly == pc = "done" /\ save_calls = 1 /\ before = <<>>

\* C13: in every reachable state of the table, two titles that differ only in
\* letter case included, a detail-get, detail-put or detail-delete for any title
\* either finds exactly one matching row and acts on it or answers 404; none
\* ends in an unhandled error.  Stated for the tables the claim names: those an
\* upsert has left.
C13_RecordOr404 ==
    UpsertedOnly =>
        \A title \in MainTitles :
            \/ Cardinality(IExact(store, title)) = 1 /\ LookupAnswer(title) = 0
            \/ LookupAnswer(title) = 404

\* the rows of the table that a step changes or removes in place
Changed == {i \in 1..Len(store) : i > Len(store') \/ store'[i] # store[i]}

\* a step in which save_movies runs
SaveStep == pc = "save" /\ pc' = "done"

\* a step that answers a detail-put with 200: the only request that is answered
\* 200 and writes
PutStep == RestStep /\ resp' = 200 /\ store' # store

\* a step that answers a detail-delete with 204
DeleteStep == RestStep /\ resp' = 204

\* the titles whose lookup finds exactly row i
TitlesOfRow(i) == {t \in RequestTitles : IExact(store, t) = {i}}

\* C14: save_movies never deletes a row, never changes a row whose title is not
\* in the batch, and never changes the title or the director of a row.  A
\* detail-put or detail-delete for a title changes at most the one row matching
\* the title and leaves every other row as it was; after a detail-delete
\* answered 204 a detail-get of the same title is answered 404; and a detail
\* request answered 404 leaves the table unchanged.
C14_OwnRecordOnly ==
    [][/\ SaveStep =>
            /\ Len(store') >= Len(store)
            /\ \A i \in 1..Len(store) :
                  /\ store'[i].title = store[i].title
                  /\ store'[i].director = store[i].director
                  /\ store[i].title \notin TitlesOf(movies) => store'[i] = store[i]
       /\ PutStep =>
            /\ Len(store') = Len(store)
            /\ \E i \in 1..Len(store) : Changed = {i} /\ TitlesOfRow(i) # {}
       /\ DeleteStep =>
            /\ \E i \in 1..Len(store) :
                  /\ TitlesOfRow(i) # {}
                  /\ store' = Remove(store, i)
                  /\ \A t \in TitlesOfRow(i) : GetOutcome(store', t) = "DoesNotExist"
            /\ \A t \in RequestTitles :
                  GetOutcome(store, t) = "found" /\ store' = Remove(store, TheMatch(store, t))
                      => LookupAnswer(t)' = 404
       /\ RestStep /\ resp' = 404 => store' = store
       /\ RestStep /\ ~PutStep /\ ~DeleteStep /\ resp' # 201 => store' = store]_vars

\* a detail-delete has been answered 204 and has left the other row, which a
\* detail-post had made with a director and save_movies has since updated
C14_Witness ==
    /\ pc = "idle"
    /\ resp = 204
    /\ Len(store) = 1
    /\ store[1].director # None
    /\ store[1].cast # None

-----------------------------------------------------------------------------
\* Properties of validate_arguments and construct_url

\* validate_arguments has run on the options
Validated == verdict # "none"

GenreInvalid == args.genre \notin {"comedy", "action", "drama", "horror"}

RatingInvalid ==
    args.user_rating # None /\ (Val(args.user_rating) < 10 \/ Val(args.user_rating) > 100)

YearInvalid ==
    args.release_year # None
    /\ (Val(args.release_year) < 1900 \/ Val(args.release_year) > now.year)

\* C4: validate_arguments raises exactly when the genre is no Genre value, or a
\* user_rating is given and lies outside 1.0..10.0, or a release_year is given
\* and lies outside 1900..current year; otherwise it returns.  Of several
\* invalid arguments the genre is reported first, then the rating, then the year.
C4_ValidateArguments ==
    Validated =>
        /\ verdict = "ok" <=> ~(GenreInvalid \/ RatingInvalid \/ YearInvalid)
        /\ verdict = "genre" <=> GenreInvalid
        /\ verdict = "rating" <=> ~GenreInvalid /\ RatingInvalid
        /\ verdict = "year" <=> ~GenreInvalid /\ ~RatingInvalid /\ YearInvalid

\* a rating on the upper bound was accepted while the year was rejected
C4_Witness ==
    /\ verdict = "year"
    /\ args.user_rating = Some(100)
    /\ args.release_year = Some(now.year + 1)

\* the keys of the segments of a URL, in order
Keys(u) == [i \in 1..Len(u) |-> u[i].k]

Optional == <<"user_rating", "num_votes", "release_date">>

\* the URL starts with the base, title_type and genres forwarded verbatim, and
\* goes on with the optional segments of the keys in present, in the fixed order
UrlShape(present) ==
    /\ url # None
    /\ Len(Val(url)) >= 3
    /\ Val(url)[1] = BASE_URL
    /\ Val(url)[2] = Segment("title_type", <<args.title_type>>)
    /\ Val(url)[3] = Segment("genres", <<args.genre>>)
    /\ Keys(SubSeq(Val(url), 4, Len(Val(url)))) = SelectSeq(Optional, LAMBDA k : k \in present)
    /\ \A i \in 4..Len(Val(url)) :
          LET seg == Val(url)[i]
          IN  /\ seg.k = "user_rating" => seg.v = <<Val(args.user_rating), 100>>
              /\ seg.k = "num_votes" => seg.v = <<Val(args.num_votes)>>
              /\ seg.k = "release_date" =>
                    seg.v = <<Val(args.release_year), 1, 1, now.year, now.month, now.day>>

\* the argument of an optional segment
ArgOf(k) ==
    IF k = "user_rating" THEN args.user_rating
    ELSE IF k = "num_votes" THEN args.num_votes ELSE args.release_year

Supplied == {k \in Range(Optional) : ArgOf(k) # None}

NotZero == {k \in Range(Optional) : ArgOf(k) # None /\ ArgOf(k) # Some(0)}

\* C5 as stated: construct_url returns the base URL, title_type and genres
\* verbatim, then the user_rating, num_votes and release_date segments in that
\* order, each present exactly when its argument is not None.
C5_SegmentIffSupplied == url # None => UrlShape(Supplied)

\* C5 amended: construct_url returns the base URL, title_type and genres
\* verbatim, then the user_rating, num_votes and release_date segments in that
\* order, each present exactly when its argument is neither None nor zero.
C5_SegmentIffTruthy == url # None => UrlShape(NotZero)

\* a URL was built for a num_votes of 0 and a user_rating: it holds the rating
\* segment and no votes segment
C5_Witness ==
    /\ url # None
    /\ args.num_votes = Some(0)
    /\ args.user_rating = Some(85)
    /\ Keys(Val(url)) = <<BASE_URL.k, "title_type", "genres", "user_rating">>

-----------------------------------------------------------------------------
\* Properties of the fetch loop

\* the command is inside fetch_all_pages_with_playwright
Fetching == pc \in {"launch", "loop", "button", "close"}

\* the fetch has returned in a run whose arguments were valid
Fetched == pc \in {"parse", "save", "done"} /\ verdict = "ok"

\* a bound on the steps the fetch has left
Variant ==
    IF pc = "launch" THEN 2 * args.pages + 3
    ELSE IF pc = "loop" THEN 2 * (args.pages - page_num) + 2
    ELSE IF pc = "button" THEN 2 * (args.pages - page_num) + 1
    ELSE IF pc = "close" THEN 1
    ELSE 0

\* C6: for every page_count >= 0 and every behaviour of the page the fetch
\* terminates (it is never stuck, and every step of it lowers a bound that stays
\* at or above 0); it harvests at most page_count times and clicks at most
\* page_count times; once the control is missing or not visible it neither
\* harvests nor clicks again; with page_count = 0 nothing is harvested and the run
\* stores nothing.
C6_FetchLoopBounded ==
    /\ [](/\ Len(all_page_content) <= args.pages
          /\ clicks <= args.pages
          /\ Variant >= 0
          /\ Fetching => ENABLED (Launch \/ Harvest \/ Click \/ Break \/ LoopEnd \/ Close)
          /\ Fetched /\ args.pages = 0 =>
                /\ all_page_content = <<>>
                /\ movies = <<>>
                /\ store = before)
    /\ [][/\ Fetching => Variant' < Variant
          /\ button = "hidden" /\ pc' # "idle" =>
                /\ all_page_content' = all_page_content
                /\ clicks' = clicks
                /\ pc' \notin {"loop", "button"}]_vars

\* a fetch of two pages has harvested twice and clicked twice
C6_Witness ==
    /\ pc = "close"
    /\ args.pages = 2
    /\ Len(all_page_content) = 2
    /\ clicks = 2

\* C7: if a step of the fetch raises, fetch_all_pages_with_playwright returns
\* None, scrape_page returns the empty list, save_movies inserts and updates
\* nothing, and the table after the run is the table before it.
C7_FetchFailureIsNoCrash ==
    fetch_failed =>
        /\ pc \in {"parse", "save", "done"}
        /\ fetched = None
        /\ movies = <<>>
        /\ created = <<>> /\ updated = <<>>
        /\ store = before

\* a run whose fetch raised after it had harvested a listing has ended, on a
\* table that held a row
C7_Witness ==
    /\ pc = "done"
    /\ fetch_failed
    /\ \E k \in 1..Len(all_page_content) : all_page_content[k] # <<>>
    /\ store # <<>>

-----------------------------------------------------------------------------
\* Properties of handle

\* the stages of a run, in the order of the statements of handle
Stage(p) ==
    IF p = "idle" THEN 0
    ELSE IF p = "validate" THEN 1
    ELSE IF p = "construct" THEN 2
    ELSE IF p = "scrape_url" THEN 3
    ELSE IF p \in {"launch", "loop", "button", "close"} THEN 4
    ELSE IF p = "parse" THEN 5
    ELSE IF p = "save" THEN 6
    ELSE 7

\* validate_arguments raised ValueError in this run
Rejected == verdict \in {"genre", "rating", "year"}

\* C12: a run goes through handle in order: the arguments are validated before
\* the URL is built, the URL is built before the fetch, the fetch has returned
\* before save_movies is called, and save_movies is called at most once.  When
\* validate_arguments raises ValueError, no URL is built, scrape_page is not
\* called (no browser session, no harvest, no click), save_movies is not called,
\* the table is the table before the run, and handle returns.
C12_RunOrder ==
    /\ [](/\ url # None => verdict = "ok"
          /\ scrape_page_calls > 0 \/ Fetching => url # None
          /\ save_calls <= 1
          /\ save_calls = 1 => pc = "done" /\ verdict = "ok" /\ scrape_page_calls = 1
          /\ Rejected =>
                /\ pc = "done"
                /\ url = None
                /\ scrape_page_calls = 0
                /\ all_page_content = <<>> /\ clicks = 0 /\ fetched = None
                /\ save_calls = 0
                /\ store = before
                /\ ENABLED Exit)
    /\ [][/\ pc' # "idle" => Stage(pc') >= Stage(pc)
          /\ pc = "validate" => Stage(pc') > Stage(pc)
          /\ url' # url /\ url' # None => pc = "construct"
          /\ pc' \in {"launch", "loop", "button", "close"} => Stage(pc) \in {3, 4}
          /\ save_calls' > save_calls => pc = "save" /\ pc' = "done"]_vars

\* a run whose genre was rejected has ended, on a table that holds a row
C12_Witness ==
    /\ pc = "done"
    /\ verdict = "genre"
    /\ args.genre = "sci-fi"
    /\ store # <<>>

-----------------------------------------------------------------------------
\* Properties of scrape_page and scrape_url

\* the heading of a container has the form '<rank>. <name>'
HasRankHeading(c) ==
    /\ c.h3 # None
    /\ LET t == Strip(Val(c.h3))
           i == Find(t, RankSep)
       IN  /\ i > 1
           /\ \A k \in 1..(i - 1) : IsDigit(t[k])
           /\ i + Len(RankSep) <= Len(t)

\* the name of such a heading: all that follows the rank prefix
NameOf(c) ==
    LET t == Strip(Val(c.h3))
    IN  SubSeq(t, Find(t, RankSep) + Len(RankSep), Len(t))

\* the k-th metadata item of a container, None when it has none
ItemOrNone(c, k) ==
    IF c.meta = None \/ Len(Val(c.meta)) < k THEN None ELSE Some(Strip(Val(c.meta)[k]))

\* the text of an element, None when it is missing
TextOrNone(o) == IF o = None THEN None ELSE Some(Strip(Val(o)))

\* C8: for every listing container whose heading has the form '<rank>. <name>'
\* scrape_page emits one record, in page order, whose title is the whole name
\* with only the rank prefix removed, whose year, duration and category are the
\* first, second and third metadata items or None, and whose rating and plot are
\* the container's rating and plot texts or None.
C8_FieldExtraction ==
    pc = "save" /\ fetched # None =>
        LET cs == FindAll(Val(fetched))
        IN  (\A i \in 1..Len(cs) : HasRankHeading(cs[i])) =>
                /\ Len(movies) = Len(cs)
                /\ \A i \in 1..Len(cs) :
                      i <= Len(movies) =>
                          /\ movies[i].title = Some(NameOf(cs[i]))
                          /\ movies[i].year = ItemOrNone(cs[i], 1)
                          /\ movies[i].duration = ItemOrNone(cs[i], 2)
                          /\ movies[i].category = ItemOrNone(cs[i], 3)
                          /\ movies[i].rating = TextOrNone(cs[i].rating)
                          /\ movies[i].plot = TextOrNone(cs[i].plot)

\* C9: scrape_url invokes scrape_page exactly once per call and returns exactly
\* the records scrape_page produced, in the same order, none added, dropped or
\* reordered.
C9_ScrapeUrlReturnsThePage ==
    /\ pc \in {"idle", "validate", "construct", "scrape_url"} => scrape_page_calls = 0
    /\ Fetching \/ Fetched => scrape_page_calls = 1
    /\ pc = "save" => movies = ScrapePage(fetched)

\* scrape_url has returned two different records
C9_Witness ==
    /\ pc = "save"
    /\ Len(movies) = 2
    /\ movies[1] # movies[2]

====
